---------------------------- MODULE Spec2Model ----------------------------
(***************************************************************************)
(* A model of the MA federal grant tracker's batch pipeline:               *)
(*   base_etl.py   build_awardid, convert_dates_and_amounts,               *)
(*                 build_snapshots, classify_awards, build_base            *)
(*   exports_*.py  export_awards_master, export_transactions_deob          *)
(*   run_all_exports.py  main                                              *)
(* A pandas DataFrame is a record [columns, rows]; a row is a record whose *)
(* fields are the frame's columns plus "index", the pandas index label the *)
(* row keeps through filters, copies and sorts.  A text cell is a sequence *)
(* of one-character strings, so that len() and strip() are computed.       *)
(***************************************************************************)
EXTENDS Integers, Sequences, FiniteSets, TLC

VARIABLES
    pc,            \* position of the run: which stage has returned last
    err,           \* the exception that ended the run, "" when none
    str_keeps_na,  \* pandas build: does astype(str) keep NaN (3.x) or give "nan" (2.x)
    raw,           \* the frame load_raw_transactions returned (the caller's object)
    df,            \* the working transaction frame of build_base
    datecol,       \* the date column name convert_dates_and_amounts returned
    finalsnap,     \* the per-award snapshot frame of build_snapshots
    m1,            \* the classified award frame of classify_awards
    awards_master, \* the frame export_awards_master wrote
    tx_deob,       \* the frame export_transactions_deob wrote
    county_lookup, \* export_geo_aggregation's county_lookup: the frame passed, NoFrame for None
    geo            \* the frame export_geo_aggregation wrote

vars ==
    <<pc, err, str_keeps_na, raw, df, datecol, finalsnap, m1, awards_master, tx_deob,
      county_lookup, geo>>

---------------------------------------------------------------------------
(* Bounds of the model.                                                    *)

\* most rows of an input transaction table
MaxRows == 2
\* most transactions of an input table that holds one award's history
MaxTx == 3
\* most identifier cells (rows times identifier columns) of an input table
\* whose identifier columns are varied
MaxIdCells == 4

---------------------------------------------------------------------------
(* Cell values.                                                            *)

\* the missing value of a text or numeric cell (numpy NaN)
NaN == <<"<NaN>">>
\* the missing value of a datetime cell (pandas NaT), kept apart from every date
NaT == 0

\* The action dates of the inputs, as written in the CSV, in calendar order;
\* the parsed date is the position in this list.
DateStrings == <<"2025-01-19", "2025-01-20", "2025-01-21">>

\* The numerals of the inputs, as written in the CSV, with their values.
Numerals == <<"-2", "-1", "0", "1", "2", "3">>
NumeralValue(i) == i - 3

\* column names
AwardCandidates ==
    <<"assistance_award_unique_key", "award_id_fain", "award_id_uri", "award_id">>
TxCandidates == <<"assistance_transaction_unique_key">>
OutlayCol == "total_outlayed_amount_for_overall_award"
AmountCol == "federal_action_obligation"

Range(s) == {s[i] : i \in 1..Len(s)}

\* a frame no stage has produced yet
NoFrame == [columns |-> {}, rows |-> <<>>]

\* df[c] = value for one row: adds the column or overwrites it
SetCol(row, c, v) == (c :> v) @@ row

---------------------------------------------------------------------------
(* Text operations of pandas' .str accessor and astype(str).               *)

\* Series.astype(str) on one cell: a text stays, NaN becomes the text "nan"
\* (pandas 2.x) or stays missing (pandas 3.x string dtype)
astype_str(v) ==
    IF v = NaN THEN (IF str_keeps_na THEN NaN ELSE <<"n", "a", "n">>) ELSE v

RECURSIVE lstrip(_)
lstrip(s) == IF s # <<>> /\ Head(s) = " " THEN lstrip(Tail(s)) ELSE s

RECURSIVE rstrip(_)
rstrip(s) ==
    IF s # <<>> /\ s[Len(s)] = " " THEN rstrip(SubSeq(s, 1, Len(s) - 1)) ELSE s

\* Series.str.strip() on one cell; a missing cell stays missing
str_strip(v) == IF v = NaN THEN NaN ELSE rstrip(lstrip(v))

\* Series.notna() on one cell
notna(v) == v # NaN

\* (Series.str.len() > 0) on one cell; len of a missing cell is NaN and NaN > 0 is False
str_len_gt0(v) == v # NaN /\ Len(v) > 0

\* Series.fillna("") on one cell
fillna_empty(v) == IF v = NaN THEN <<>> ELSE v

---------------------------------------------------------------------------
(* build_awardid (base_etl.py 11-40)                                       *)

present_award_cols(columns) == SelectSeq(AwardCandidates, LAMBDA c : c \in columns)
tx_present(columns) == SelectSeq(TxCandidates, LAMBDA c : c \in columns)

\* the loop of lines 23-27 for one row: awardid.where(notna & len > 0, df[c].astype(str))
RECURSIVE where_fallthrough(_, _, _)
where_fallthrough(awardid, row, cs) ==
    IF cs = <<>> THEN awardid
    ELSE where_fallthrough(
            IF notna(awardid) /\ str_len_gt0(awardid)
                THEN awardid ELSE astype_str(row[Head(cs)]),
            row, Tail(cs))

\* Fault seeded in resolve_awardid: a row left without identifier is named
\* after its position in the frame.
resolve_awardid_by_position(row, columns) ==
    LET pac == present_award_cols(columns)
        id == IF pac # <<>>
              THEN str_strip(fillna_empty(
                      where_fallthrough(astype_str(row[pac[1]]), row, Tail(pac))))
              ELSE str_strip(astype_str(row[tx_present(columns)[1]]))
    IN  IF str_len_gt0(id) THEN id
        ELSE IF row.index = 1 THEN <<"A">> ELSE <<"B">>

\* the awardid cell lines 21-37 give one row of a frame with these columns
resolve_awardid(row, columns) ==
    LET pac == present_award_cols(columns)
    IN  IF pac # <<>>
        THEN str_strip(fillna_empty(
                where_fallthrough(astype_str(row[pac[1]]), row, Tail(pac))))
        ELSE str_strip(astype_str(row[tx_present(columns)[1]]))

\* line 36: no identifier column at all
awardid_key_error(columns) ==
    present_award_cols(columns) = <<>> /\ tx_present(columns) = <<>>

\* lines 28/37: df["awardid"] = ..., in place on the frame passed in
with_awardid(t) ==
    [columns |-> t.columns \cup {"awardid"},
     rows |-> [i \in 1..Len(t.rows) |->
                 SetCol(t.rows[i], "awardid", resolve_awardid(t.rows[i], t.columns))]]

\* Fault seeded in keep_nonempty_awardid: only missing identifiers are dropped.
keep_notna_awardid(t) ==
    [columns |-> t.columns,
     rows |-> SelectSeq(t.rows, LAMBDA r : notna(r.awardid))]

\* line 39: df[df["awardid"].str.len() > 0].copy()
keep_nonempty_awardid(t) ==
    [columns |-> t.columns,
     rows |-> SelectSeq(t.rows, LAMBDA r : str_len_gt0(r.awardid))]

\* the frame build_awardid returns
build_awardid(t) == keep_nonempty_awardid(with_awardid(t))

\* lines 39-40: the values build_awardid returns or records besides that
\* frame.  The rows are filtered out and the frame is returned; nothing is
\* counted, logged or returned with it.
build_awardid_reported(t) == {}

---------------------------------------------------------------------------
(* convert_dates_and_amounts (base_etl.py 42-66)                           *)

\* pd.to_datetime(errors="coerce") on one CSV cell: the date, or NaT
to_datetime_coerce(s) ==
    IF \E i \in 1..Len(DateStrings) : DateStrings[i] = s
    THEN CHOOSE i \in 1..Len(DateStrings) : DateStrings[i] = s
    ELSE NaT

\* pd.to_numeric(errors="coerce") on one CSV cell: <<value>>, or <<>> for NaN
to_numeric_coerce(s) ==
    IF \E i \in 1..Len(Numerals) : Numerals[i] = s
    THEN <<NumeralValue(CHOOSE i \in 1..Len(Numerals) : Numerals[i] = s)>>
    ELSE <<>>

\* Series.fillna(0.0) on one numeric cell
fillna_zero(o) == IF o = <<>> THEN 0 ELSE o[1]

\* line 48
convert_date_column(t) ==
    [columns |-> t.columns,
     rows |-> [i \in 1..Len(t.rows) |->
        SetCol(t.rows[i], "action_date", to_datetime_coerce(t.rows[i].action_date))]]

\* Fault seeded in convert_amount_column: the rows whose amount does not parse
\* are dropped (dropna) instead of set to 0.0.
convert_amount_column_dropna(t) ==
    [columns |-> t.columns,
     rows |-> LET ok == SelectSeq(t.rows,
                            LAMBDA r : to_numeric_coerce(r[AmountCol]) # <<>>)
              IN  [i \in 1..Len(ok) |->
                     SetCol(ok[i], AmountCol, to_numeric_coerce(ok[i][AmountCol])[1])]]

\* lines 52-54
convert_amount_column(t) ==
    [columns |-> t.columns,
     rows |-> [i \in 1..Len(t.rows) |->
        SetCol(t.rows[i], AmountCol,
               fillna_zero(to_numeric_coerce(t.rows[i][AmountCol])))]]

\* lines 57-64: a missing outlay column is created as 0.0
convert_outlay_column(t) ==
    [columns |-> t.columns \cup {OutlayCol},
     rows |-> [i \in 1..Len(t.rows) |->
        SetCol(t.rows[i], OutlayCol,
               IF OutlayCol \notin t.columns THEN 0
               ELSE fillna_zero(to_numeric_coerce(t.rows[i][OutlayCol])))]]

\* Fault seeded in convert_dates_and_amounts: a missing amount column is
\* created as 0.0, the way lines 58-60 treat the outlay column.
convert_dates_and_amounts_default_amount(t) ==
    IF "action_date" \notin t.columns
    THEN [err |-> "KeyError: action_date", df |-> t, datecol |-> ""]
    ELSE LET u == IF AmountCol \in t.columns THEN convert_amount_column(t)
                  ELSE [columns |-> t.columns \cup {AmountCol},
                        rows |-> [i \in 1..Len(t.rows) |-> SetCol(t.rows[i], AmountCol, 0)]]
         IN  [err |-> "",
              df |-> convert_outlay_column(convert_date_column(u)),
              datecol |-> "action_date"]

\* lines 44-66: what the call does to the frame it is given (it works in
\* place), the exception it raises ("" when none) and the datecol it returns.
\* The date column is already converted when the amount column is found missing.
convert_dates_and_amounts(t) ==
    IF "action_date" \notin t.columns
    THEN [err |-> "KeyError: action_date", df |-> t, datecol |-> ""]
    ELSE IF AmountCol \notin t.columns
    THEN [err |-> "KeyError: federal_action_obligation",
          df |-> convert_date_column(t), datecol |-> ""]
    ELSE [err |-> "",
          df |-> convert_outlay_column(convert_amount_column(convert_date_column(t))),
          datecol |-> "action_date"]

---------------------------------------------------------------------------
(* build_snapshots (base_etl.py 68-116)                                    *)

\* code point of the characters the inputs use
CharRank(c) ==
    CASE c = " " -> 32 [] c = "A" -> 65 [] c = "B" -> 66 [] c = "T" -> 84
      [] c = "a" -> 97 [] c = "n" -> 110

\* Python's < on str
RECURSIVE str_less(_, _)
str_less(s, t) ==
    IF t = <<>> THEN FALSE
    ELSE IF s = <<>> THEN TRUE
    ELSE IF Head(s) # Head(t) THEN CharRank(Head(s)) < CharRank(Head(t))
    ELSE str_less(Tail(s), Tail(t))

\* ascending order of datetimes with na_position="last"
date_less(d, e) == d # NaT /\ (e = NaT \/ d < e)

\* the order of sort_values(["awardid", datecol])
row_less(a, b) ==
    \/ str_less(a.awardid, b.awardid)
    \/ a.awardid = b.awardid /\ date_less(a.action_date, b.action_date)

\* Fault seeded in insert_stable: a row goes before the rows it ties with.
RECURSIVE insert_before_ties(_, _)
insert_before_ties(sorted, r) ==
    IF sorted = <<>> THEN <<r>>
    ELSE IF ~row_less(Head(sorted), r) THEN <<r>> \o sorted
    ELSE <<Head(sorted)>> \o insert_before_ties(Tail(sorted), r)

\* the sort is a stable lexsort: a row goes after the rows it is not less than
RECURSIVE insert_stable(_, _)
insert_stable(sorted, r) ==
    IF sorted = <<>> THEN <<r>>
    ELSE IF row_less(r, Head(sorted)) THEN <<r>> \o sorted
    ELSE <<Head(sorted)>> \o insert_stable(Tail(sorted), r)

RECURSIVE sort_values(_)
sort_values(rows) ==
    IF rows = <<>> THEN <<>>
    ELSE insert_stable(sort_values(SubSeq(rows, 1, Len(rows) - 1)), rows[Len(rows)])

\* lines 72-74: groupby("awardid")[amount].cumsum(), a running total per award
RECURSIVE group_cumsum(_, _)
group_cumsum(rows, running) ==
    IF rows = <<>> THEN <<>>
    ELSE LET r == Head(rows)
             k == r.awardid
             tot == (IF k \in DOMAIN running THEN running[k] ELSE 0) + r[AmountCol]
         IN  <<SetCol(r, "cumulative_obligation", tot)>>
                 \o group_cumsum(Tail(rows), (k :> tot) @@ running)

\* lines 69-77: the sorted transaction frame with its derived columns
snapshot_df(t) ==
    LET sorted == sort_values(t.rows)
        cum == group_cumsum(sorted, [k \in {} |-> 0])
    IN  [columns |-> t.columns
                \cup {"cumulative_obligation", "is_deobligation_tx", "neg_date"},
         rows |-> [i \in 1..Len(cum) |->
            LET deob == cum[i][AmountCol] < 0
            IN  SetCol(SetCol(cum[i], "is_deobligation_tx", deob),
                       "neg_date", IF deob THEN cum[i].action_date ELSE NaT)]]

RECURSIVE seq_sum(_)
seq_sum(s) == IF s = <<>> THEN 0 ELSE Head(s) + seq_sum(Tail(s))

Column(rows, c) == [i \in 1..Len(rows) |-> rows[i][c]]

\* Fault seeded in group_keys: one key per transaction instead of one per award.
group_keys_per_row(rows) == [i \in 1..Len(rows) |-> rows[i].awardid]

\* the group keys of groupby("awardid"), in the order pandas lists them (sorted)
RECURSIVE group_keys(_)
group_keys(rows) ==
    IF rows = <<>> THEN <<>>
    ELSE LET rest == group_keys(SubSeq(rows, 1, Len(rows) - 1))
             k == rows[Len(rows)].awardid
         IN  IF k \in Range(rest) THEN rest
             ELSE LET before == SelectSeq(rest, LAMBDA x : str_less(x, k))
                      after == SelectSeq(rest, LAMBDA x : ~str_less(x, k))
                  IN  before \o <<k>> \o after

group_rows(rows, k) == SelectSeq(rows, LAMBDA r : r.awardid = k)

\* Fault seeded in group_last: the group's first row is taken ("first").
group_head(g, c) == g[1][c]

\* GroupBy.last(): the value of the group's last row (no cell of these columns is null)
group_last(g, c) == g[Len(g)][c]

\* Fault seeded in group_min_date: NaT cells are not skipped (skipna=False).
group_min_date_keepna(g, c) ==
    LET ds == {g[i][c] : i \in 1..Len(g)}
    IN  IF NaT \in ds \/ ds = {} THEN NaT ELSE CHOOSE d \in ds : \A e \in ds : d <= e

\* GroupBy.min() of a datetime column: NaT cells are skipped, NaT when none is left
group_min_date(g, c) ==
    LET ds == {g[i][c] : i \in 1..Len(g)} \ {NaT}
    IN  IF ds = {} THEN NaT ELSE CHOOSE d \in ds : \A e \in ds : d <= e

\* lines 78-114: one row of finalsnap, for the award k
snapshot_row(rows, k) ==
    LET g == group_rows(rows, k)
        amounts == Column(g, AmountCol)
        pos == SelectSeq(amounts, LAMBDA a : a > 0)
    IN  [awardid |-> k,
         final_cum_obligation |-> group_last(g, "cumulative_obligation"),
         any_negative |-> \E i \in 1..Len(g) : g[i].is_deobligation_tx,
         total_negative_amount |-> seq_sum(SelectSeq(amounts, LAMBDA a : a < 0)),
         total_obligation_amount |-> seq_sum(amounts),
         first_negative_date |-> group_min_date(g, "neg_date"),
         total_outlayed_amount_for_overall_award |-> group_last(g, OutlayCol),
         gross_positive_obligation |-> IF pos = <<>> THEN 0 ELSE seq_sum(pos)]

SnapshotColumns ==
    {"awardid", "final_cum_obligation", "any_negative", "total_negative_amount",
     "total_obligation_amount", "first_negative_date", OutlayCol,
     "gross_positive_obligation"}

\* the finalsnap frame: one row per group key
snapshot_frame(rows) ==
    LET keys == group_keys(rows)
    IN  [columns |-> SnapshotColumns,
         rows |-> [i \in 1..Len(keys) |->
                     SetCol(snapshot_row(rows, keys[i]), "index", i)]]

---------------------------------------------------------------------------
(* classify_awards (base_etl.py 118-168)                                   *)

\* Fault seeded in classify_label: the first test strict, so that an award
\* whose final cumulative obligation is exactly zero leaves the first branch.
classify_label_strict(finalcum, outlays, anyneg) ==
    IF finalcum < 0
    THEN IF outlays > 0 THEN "RESCISSION" ELSE "CANCELLATION"
    ELSE IF anyneg /\ outlays > 0 THEN "PARTIAL_RES_CUM_POS"
         ELSE IF anyneg /\ outlays = 0 THEN "ADMIN_OR_PREPAY_ADJ"
         ELSE "NO_DEOBLIGATION"

\* lines 130-146: the decision tree of classify_and_explain
classify_label(finalcum, outlays, anyneg) ==
    IF finalcum <= 0
    THEN IF outlays > 0 THEN "RESCISSION" ELSE "CANCELLATION"
    ELSE IF anyneg /\ outlays > 0 THEN "PARTIAL_RES_CUM_POS"
         ELSE IF anyneg /\ outlays = 0 THEN "ADMIN_OR_PREPAY_ADJ"
         ELSE "NO_DEOBLIGATION"

Abs(x) == IF x < 0 THEN -x ELSE x

\* lines 121-162: the three cells classify_and_explain returns for one row;
\* pct_outlayed_of_pos is the fraction <<numerator, denominator>>, the
\* explanation the tuple of the values the f-string formats
classify_and_explain(row) ==
    LET finalcum == row.final_cum_obligation
        outlays == row[OutlayCol]
        anyneg == row.any_negative
        grosspos == row.gross_positive_obligation
        totalneg == row.total_negative_amount
        pctoutlayed == IF grosspos > 0 THEN <<outlays, grosspos>> ELSE <<0, 1>>
        label == classify_label(finalcum, outlays, anyneg)
    IN  [label |-> label,
         explanation |-> <<label, finalcum, outlays, pctoutlayed, Abs(totalneg),
                           row.first_negative_date>>,
         pct_outlayed_of_pos |-> pctoutlayed]

\* lines 164-166: m1 = finalsnap.copy() with the three new columns
classify_frame(t) ==
    [columns |-> t.columns \cup {"label", "explanation", "pct_outlayed_of_pos"},
     rows |-> [i \in 1..Len(t.rows) |-> classify_and_explain(t.rows[i]) @@ t.rows[i]]]

---------------------------------------------------------------------------
(* export_awards_master (exports_awards.py 5-121)                          *)

\* config.py 23: pd.Timestamp("2025-01-20"), the second of DateStrings
TRUMP_START == 2

\* GroupBy.max() of a datetime column: NaT cells are skipped
group_max_date(g, c) ==
    LET ds == {g[i][c] : i \in 1..Len(g)} \ {NaT}
    IN  IF ds = {} THEN NaT ELSE CHOOSE d \in ds : \A e \in ds : d >= e

\* GroupBy.first(): the first non-null cell of the group
group_first(g, c) ==
    LET present == SelectSeq(Column(g, c), notna)
    IN  IF present = <<>> THEN NaN ELSE present[1]

\* a comparison with NaT is False
date_lt(d, e) == d # NaT /\ e # NaT /\ d < e
\* Fault seeded in date_ge: the comparison strict, the cutoff day left out.
date_ge_strict(d, e) == d # NaT /\ e # NaT /\ d > e
date_ge(d, e) == d # NaT /\ e # NaT /\ d >= e

BoolInt(b) == IF b THEN 1 ELSE 0

clip_lower0(x) == IF x < 0 THEN 0 ELSE x
\* Fault seeded in clip_upper0: the amounts are not clipped.
clip_upper0_off(x) == x
clip_upper0(x) == IF x > 0 THEN 0 ELSE x

\* DataFrame.drop_duplicates(subset=["awardid"]): the first row of each awardid stays
RECURSIVE drop_duplicates(_)
drop_duplicates(rows) ==
    IF rows = <<>> THEN <<>>
    ELSE LET rest == drop_duplicates(SubSeq(rows, 1, Len(rows) - 1))
             r == rows[Len(rows)]
         IN  IF \E i \in 1..Len(rest) : rest[i].awardid = r.awardid
             THEN rest ELSE Append(rest, r)

AwardsOutCols ==
    {"awardid", "recipient_name", "cfda_number", "cfda_title", "awarding_agency_name",
     "funding_agency_name", "final_cum_obligation", "total_negative_amount",
     "total_obligation_amount", "total_obligation_pos", "total_deobligation_neg",
     OutlayCol, "gross_positive_obligation", "label", "pct_outlayed_of_pos",
     "first_negative_date", "first_action_date", "last_action_date",
     "pre_trump_flag", "trump_era_flag", "awards_with_trump_cut"}

\* frame[out_present]: the columns kept, and each row's index label
Project(t, cols) ==
    [columns |-> t.columns \cap cols,
     rows |-> [i \in 1..Len(t.rows) |->
                 [c \in (t.columns \cap cols) \cup {"index"} |-> t.rows[i][c]]]]

\* lines 33-89 for one row of m1: the cells the left merges on awardid add.
\* Every awardid of m1 is a group of d, d being the frame m1 was built from.
award_merged_row(d, dc, row) ==
    LET g == group_rows(d.rows, row.awardid)
        first_date == group_min_date(g, dc)
        last_date == group_max_date(g, dc)
        amounts == Column(g, AmountCol)
    IN  [recipient_name |-> group_first(g, "recipient_name"),
         first_action_date |-> first_date,
         last_action_date |-> last_date,
         pre_trump_flag |-> BoolInt(date_lt(first_date, TRUMP_START)),
         trump_era_flag |-> BoolInt(date_ge(last_date, TRUMP_START)),
         awards_with_trump_cut |->
            BoolInt(\E i \in 1..Len(g) :
                        date_ge(g[i][dc], TRUMP_START) /\ g[i].is_deobligation_tx),
         total_obligation_pos |->
            seq_sum([i \in 1..Len(amounts) |-> clip_lower0(amounts[i])]),
         total_deobligation_neg |->
            Abs(seq_sum([i \in 1..Len(amounts) |-> clip_upper0(amounts[i])]))]
        @@ row

\* the frame export_awards_master writes and returns, given the frame d passed in
\* and the module-level names m1 and datecol it reads (lines 39, 43)
export_awards_master(d, m, dc) ==
    LET merged == [i \in 1..Len(m.rows) |-> award_merged_row(d, dc, m.rows[i])]
        awards == [columns |-> m.columns \cup
                        {"recipient_name", "first_action_date", "last_action_date",
                         "pre_trump_flag", "trump_era_flag", "awards_with_trump_cut",
                         "total_obligation_pos", "total_deobligation_neg"},
                   rows |-> drop_duplicates(merged)]
    IN  Project(awards, AwardsOutCols)

---------------------------------------------------------------------------
(* export_transactions_deob (exports_transactions.py 11-69)                *)

TxOutCols(dc) ==
    {"awardid", dc, AmountCol, "deobligated_amount_usd", "label", "action_type_code",
     "action_type_description", "correction_delete_indicator_code",
     "correction_delete_indicator_description", "recipient_name",
     "recipient_city_name", "recipient_state_code",
     "primary_place_of_performance_city_name",
     "primary_place_of_performance_state_code", "trump_era_flag"}

\* Series.map(label_map): the label of the award in m, NaN when m has no such award
map_label(m, k) ==
    IF \E i \in 1..Len(m.rows) : m.rows[i].awardid = k
    THEN m.rows[CHOOSE i \in 1..Len(m.rows) : m.rows[i].awardid = k].label
    ELSE "<NaN>"

\* Fault seeded in export_transactions_deob: the filter of line 21 written <= 0.
export_transactions_deob_nonpositive(d, m, dc) ==
    LET neg == SelectSeq(d.rows, LAMBDA r : r[AmountCol] <= 0)
        df_neg ==
            [columns |-> d.columns \cup {"deobligated_amount_usd", "label", "trump_era_flag"},
             rows |-> [i \in 1..Len(neg) |->
                [deobligated_amount_usd |-> -neg[i][AmountCol],
                 label |-> map_label(m, neg[i].awardid),
                 trump_era_flag |-> BoolInt(date_ge(neg[i][dc], TRUMP_START))]
                @@ neg[i]]]
    IN  Project(df_neg, TxOutCols(dc))

\* lines 21-28 and 47-69.  The date column is a datetime column already, which
\* pd.to_datetime leaves as it is; the inputs carry no recipient_city_name, so
\* the city-month rollup of lines 52-67 is skipped.
export_transactions_deob(d, m, dc) ==
    LET neg == SelectSeq(d.rows, LAMBDA r : r[AmountCol] < 0)
        df_neg ==
            [columns |-> d.columns \cup {"deobligated_amount_usd", "label", "trump_era_flag"},
             rows |-> [i \in 1..Len(neg) |->
                [deobligated_amount_usd |-> -neg[i][AmountCol],
                 label |-> map_label(m, neg[i].awardid),
                 trump_era_flag |-> BoolInt(date_ge(neg[i][dc], TRUMP_START))]
                @@ neg[i]]]
    IN  Project(df_neg, TxOutCols(dc))

---------------------------------------------------------------------------
(* load_dp05_county and export_geo_aggregation (exports_geo.py)            *)
(* A numeric cell of the lookup and of the county frame is <<value>>, or   *)
(* <<>> when missing; a ratio is <<numerator, denominator>>.               *)

LookupCols ==
    {"county_fips", "county_name", "population_total", "pct_minority", "pct_black",
     "pct_hispanic", "pct_asian"}

\* Series.str[-5:] on one cell
str_last5(v) ==
    IF v = NaN THEN NaN ELSE IF Len(v) <= 5 THEN v ELSE SubSeq(v, Len(v) - 4, Len(v))

\* lines 51-59: to_numeric(count) / population_total * 100
pct_of_population(cell, pop) ==
    LET cnt == to_numeric_coerce(cell)
    IN  IF cnt = <<>> \/ pop = <<>> THEN <<>> ELSE <<cnt[1] * 100, pop[1]>>

\* lines 60-62: 100 - to_numeric(count) / population_total * 100
pct_rest_of_population(cell, pop) ==
    LET cnt == to_numeric_coerce(cell)
    IN  IF cnt = <<>> \/ pop = <<>> THEN <<>> ELSE <<(pop[1] - cnt[1]) * 100, pop[1]>>

\* lines 15-72: the exception load_dp05_county raises ("" when none) and the
\* lookup it returns for the DP05 file dp
load_dp05_county(dp) ==
    IF "GEO_ID" \notin dp.columns /\ "GEOID" \notin dp.columns
    THEN [err |-> "KeyError: GEO_ID", lookup |-> NoFrame]
    ELSE IF "NAME" \notin dp.columns /\ "Geographic Area Name" \notin dp.columns
    THEN [err |-> "KeyError: NAME", lookup |-> NoFrame]
    ELSE LET geo_col == IF "GEO_ID" \in dp.columns THEN "GEO_ID" ELSE "GEOID"
             name_col == IF "NAME" \in dp.columns THEN "NAME" ELSE "Geographic Area Name"
         IN  [err |-> "",
              lookup |->
                [columns |-> LookupCols,
                 rows |-> [i \in 1..Len(dp.rows) |->
                    LET r == dp.rows[i]
                        pop == to_numeric_coerce(r.DP05_0001E)
                    IN  [index |-> r.index,
                         county_fips |-> str_last5(astype_str(r[geo_col])),
                         county_name |-> str_strip(astype_str(r[name_col])),
                         population_total |-> pop,
                         pct_black |-> pct_of_population(r.DP05_0038E, pop),
                         pct_asian |-> pct_of_population(r.DP05_0047E, pop),
                         pct_hispanic |-> pct_of_population(r.DP05_0076E, pop),
                         pct_minority |-> pct_rest_of_population(r.DP05_0037E, pop)]]]]

\* lines 95-100: df_neg, the negative transactions with their county name
\* normalised and their amount negated
geo_df_neg(d) ==
    LET neg == SelectSeq(d.rows, LAMBDA r : r[AmountCol] < 0)
    IN  [i \in 1..Len(neg) |->
            [recipient_county_name |-> str_strip(astype_str(neg[i].recipient_county_name)),
             deobligated_amount_usd |-> -neg[i][AmountCol]] @@ neg[i]]

\* the group keys of groupby("recipient_county_name"): sorted, missing keys
\* left out (dropna=True)
RECURSIVE county_keys(_)
county_keys(rows) ==
    IF rows = <<>> THEN <<>>
    ELSE LET rest == county_keys(SubSeq(rows, 1, Len(rows) - 1))
             k == rows[Len(rows)].recipient_county_name
         IN  IF k = NaN \/ k \in Range(rest) THEN rest
             ELSE LET before == SelectSeq(rest, LAMBDA x : str_less(x, k))
                      after == SelectSeq(rest, LAMBDA x : ~str_less(x, k))
                  IN  before \o <<k>> \o after

\* lines 102-119: dollars_by_county merged with awards_with_cut_by_county, one
\* row per group key (both sides are grouped from df_neg on the same key)
geo_by_county(neg) ==
    LET keys == county_keys(neg)
    IN  [i \in 1..Len(keys) |->
            LET g == SelectSeq(neg, LAMBDA r : r.recipient_county_name = keys[i])
            IN  [recipient_county_name |-> keys[i],
                 deobligated_amount_usd |-> seq_sum(Column(g, "deobligated_amount_usd")),
                 awards_with_any_cut |-> Cardinality({g[j].awardid : j \in 1..Len(g)})]]

\* lines 122-123: the lookup with its join key
lookup_keyed(l) ==
    [i \in 1..Len(l.rows) |->
        SetCol(l.rows[i], "recipient_county_name",
               str_strip(astype_str(l.rows[i].county_name)))]

\* the cells a left row without a match gets for the lookup's columns
NoDemographics ==
    [county_fips |-> NaN, county_name |-> NaN, population_total |-> <<>>,
     pct_minority |-> <<>>, pct_black |-> <<>>, pct_hispanic |-> <<>>, pct_asian |-> <<>>]

\* Fault seeded in merge_left: an inner join, a row without a match is dropped.
RECURSIVE merge_inner(_, _)
merge_inner(left, right) ==
    IF left = <<>> THEN <<>>
    ELSE LET l == Head(left)
             matches == SelectSeq(right,
                            LAMBDA r : r.recipient_county_name = l.recipient_county_name)
         IN  [j \in 1..Len(matches) |-> l @@ matches[j]]
                 \o merge_inner(Tail(left), right)

\* lines 125-129: merge(how="left") on recipient_county_name: each left row
\* once per matching right row, in the right rows' order, or once without a match
RECURSIVE merge_left(_, _)
merge_left(left, right) ==
    IF left = <<>> THEN <<>>
    ELSE LET l == Head(left)
             matches == SelectSeq(right,
                            LAMBDA r : r.recipient_county_name = l.recipient_county_name)
         IN  (IF matches = <<>> THEN <<l @@ NoDemographics>>
              ELSE [j \in 1..Len(matches) |-> l @@ matches[j]])
                 \o merge_left(Tail(left), right)

\* lines 131-136
per_population(x, pop) == IF pop = <<>> THEN <<>> ELSE <<x, pop[1]>>

GeoOutCols ==
    {"county_fips", "county_name", "recipient_county_name", "deobligated_amount_usd",
     "awards_with_any_cut", "population_total", "deob_dollars_per_capita",
     "cuts_per_10k_residents", "pct_minority", "pct_black", "pct_hispanic", "pct_asian"}

\* lines 95-156: the frame export_geo_aggregation writes and returns, given
\* the transaction frame d and the lookup l
export_geo_aggregation(d, l) ==
    LET merged == merge_left(geo_by_county(geo_df_neg(d)), lookup_keyed(l))
        geo_frame ==
            [columns |-> GeoOutCols,
             rows |-> [i \in 1..Len(merged) |->
                [index |-> i,
                 deob_dollars_per_capita |->
                    per_population(merged[i].deobligated_amount_usd,
                                   merged[i].population_total),
                 cuts_per_10k_residents |->
                    per_population(merged[i].awards_with_any_cut * 10000,
                                   merged[i].population_total)] @@ merged[i]]]
    IN  Project(geo_frame, GeoOutCols)

---------------------------------------------------------------------------
(* The inputs: the frames load_raw_transactions may return.                *)

IdColumns == Range(AwardCandidates) \cup Range(TxCandidates)

\* the rows over a set of columns, each cell drawn from its column's domain
RECURSIVE RowsOver(_, _)
RowsOver(cols, dom) ==
    IF cols = {} THEN {[c \in {} |-> 0]}
    ELSE LET c == CHOOSE x \in cols : TRUE
         IN  {(c :> v) @@ r : v \in dom[c], r \in RowsOver(cols \ {c}, dom)}

\* the frame read_csv gives for the rows s: the index is 1..n
Frame(dom, s) ==
    [columns |-> DOMAIN dom,
     rows |-> [i \in 1..Len(s) |-> SetCol(s[i], "index", i)]]

\* identifier cells: missing, empty, blank, and a key with trailing white space
IdCells == {NaN, <<>>, <<" ">>, <<"A", " ">>}

UnparseableCell == "n/a"
\* an empty field of the CSV, which read_csv reads as a missing value
EmptyCell == ""

\* the columns every input carries besides the identifier columns
DataDomain(dates, amounts, outlays) ==
    [action_date |-> dates,
     federal_action_obligation |-> amounts,
     total_outlayed_amount_for_overall_award |-> outlays,
     recipient_name |-> {<<"T">>}]

\* Each family of inputs is a set of [dom, n]: the columns with the cells each
\* may hold, and the number of rows.

\* inputs that vary the identifier columns and their cells
IdentityInputs ==
    {[dom |-> [c \in x[1] |-> IdCells] @@ DataDomain({DateStrings[1]}, {"1"}, {"0"}),
      n |-> x[2]] :
        x \in {y \in (SUBSET IdColumns) \X (0..MaxRows) :
                 Cardinality(y[1]) * y[2] <= MaxIdCells}}

\* inputs that vary the awards' transactions: two awards, dates parseable and
\* unparseable, amounts and outlays of either sign
TrajectoryInputs ==
    {[dom |-> [assistance_award_unique_key |-> {<<"A">>, <<"B">>}]
                @@ DataDomain({DateStrings[2], UnparseableCell},
                              {"-1", "0", "2"}, {"-1", "0", "1"}),
      n |-> n] : n \in 0..MaxRows}

\* inputs that hold the history of one award: more transactions, one outlay
SingleAwardInputs ==
    {[dom |-> [assistance_award_unique_key |-> {<<"A">>}]
                @@ DataDomain({DateStrings[1], DateStrings[2], UnparseableCell},
                              {"-1", "0", "2"}, {"1"}),
      n |-> n] : n \in 0..MaxTx}

\* inputs that place one award's transactions before, on and after the cutoff
CutoffInputs ==
    {[dom |-> [assistance_award_unique_key |-> {<<"A">>}]
                @@ DataDomain(Range(DateStrings) \cup {UnparseableCell},
                              {"-1", "2"}, {"1"}),
      n |-> n] : n \in 0..MaxRows}

\* county cells: missing, two counties, and a name with trailing white space
CountyCells == {NaN, <<"A">>, <<"A", " ">>, <<"B">>}

\* inputs that vary the county of the transactions of two awards
GeoInputs ==
    {[dom |-> [assistance_award_unique_key |-> {<<"A">>, <<"B">>},
               recipient_county_name |-> CountyCells]
                @@ DataDomain({DateStrings[2]}, {"-1", "2"}, {"1"}),
      n |-> n] : n \in 0..MaxRows}

\* inputs that vary the schema: any of the date, amount and outlay columns may
\* be absent, and the cells present may be unparseable
SchemaInputs ==
    {[dom |-> [c \in x[1] \cup {"assistance_award_unique_key", "recipient_name"} |->
                ([assistance_award_unique_key |-> {<<"A">>}]
                    @@ DataDomain({DateStrings[2], UnparseableCell},
                                  {"-1", "2", UnparseableCell, EmptyCell},
                                  {"1", UnparseableCell}))[c]],
      n |-> x[2]] :
        x \in (SUBSET {"action_date", AmountCol, OutlayCol}) \X (0..MaxRows)}

Inputs ==
    IdentityInputs \cup TrajectoryInputs \cup SingleAwardInputs \cup CutoffInputs
        \cup GeoInputs \cup SchemaInputs

\* a row of a lookup passed to export_geo_aggregation
LookupRow(i, name) ==
    [index |-> i,
     county_fips |-> <<"2", "5", "0", "0", <<"1", "3", "5", "7">>[i]>>,
     county_name |-> name,
     population_total |-> <<i>>,
     pct_minority |-> <<1, 2>>, pct_black |-> <<1, 4>>,
     pct_hispanic |-> <<1, 8>>, pct_asian |-> <<1, 8>>]

\* the lookups passed: without rows, without the county A, and with two rows
\* whose names differ in white space only
SuppliedLookups ==
    {[columns |-> LookupCols, rows |-> [i \in 1..Len(names) |-> LookupRow(i, names[i])]] :
        names \in {<<>>, <<<<"B">>>>, <<<<"A">>, <<"A", " ">>>>}}

Dp05Cols == {"DP05_0001E", "DP05_0037E", "DP05_0038E", "DP05_0047E", "DP05_0076E"}

\* a row of the DP05 file
Dp05Row(i, geoid, name, pop) ==
    [index |-> i, GEO_ID |-> geoid, NAME |-> name, DP05_0001E |-> pop,
     DP05_0037E |-> "1", DP05_0038E |-> "1", DP05_0047E |-> "0",
     DP05_0076E |-> UnparseableCell]

\* the DP05 files read when no lookup is passed: one with the counties A
\* and B, one without a name column
Dp05Files ==
    {[columns |-> Dp05Cols \cup {"GEO_ID", "NAME"},
      rows |-> <<Dp05Row(1, <<"0", "U", "S", "2", "5", "0", "0", "1">>, <<"A", " ">>, "3"),
                 Dp05Row(2, <<"0", "U", "S", "2", "5", "0", "0", "3">>, <<"B">>, "2")>>],
     [columns |-> Dp05Cols \cup {"GEO_ID"}, rows |-> <<>>]}

HasNaN(t) ==
    \E i \in 1..Len(t.rows) :
        \E c \in t.columns \cap (IdColumns \cup {"recipient_county_name"}) :
            t.rows[i][c] = NaN

Init ==
    /\ \E f \in Inputs :
        \E s \in [1..f.n -> RowsOver(DOMAIN f.dom, f.dom)] : raw = Frame(f.dom, s)
    \* the pandas build matters only where astype(str) meets a missing cell
    /\ str_keeps_na \in (IF HasNaN(raw) THEN BOOLEAN ELSE {FALSE})
    /\ pc = "loaded"
    /\ err = ""
    /\ df = NoFrame
    /\ datecol = ""
    /\ finalsnap = NoFrame
    /\ m1 = NoFrame
    /\ awards_master = NoFrame
    /\ tx_deob = NoFrame
    /\ county_lookup \in (IF "recipient_county_name" \in raw.columns
                           THEN SuppliedLookups \cup {NoFrame} ELSE {NoFrame})
    /\ geo = NoFrame

---------------------------------------------------------------------------
(* build_base (base_etl.py 170-176), one action per stage it calls.        *)

\* line 172: df = build_awardid(df).  The awardid column is written on the
\* caller's frame (lines 28/37); the frame returned is a filtered copy.
BuildAwardId ==
    /\ pc = "loaded"
    /\ IF awardid_key_error(raw.columns)
       THEN /\ pc' = "error"
            /\ err' = "KeyError: awardid"
            /\ UNCHANGED <<raw, df>>
       ELSE /\ raw' = with_awardid(raw)
            /\ df' = build_awardid(raw)
            /\ pc' = "awardid"
            /\ err' = ""
    /\ UNCHANGED <<str_keeps_na, county_lookup, geo, datecol, finalsnap, m1, awards_master, tx_deob>>

\* line 173: df, datecol = convert_dates_and_amounts(df), in place on df
ConvertDatesAndAmounts ==
    /\ pc = "awardid"
    /\ LET out == convert_dates_and_amounts(df)
       IN  /\ df' = out.df
           /\ err' = out.err
           /\ datecol' = out.datecol
           /\ pc' = IF out.err = "" THEN "converted" ELSE "error"
    /\ UNCHANGED <<str_keeps_na, county_lookup, geo, raw, finalsnap, m1, awards_master, tx_deob>>

\* line 174: df, finalsnap = build_snapshots(df, datecol)
BuildSnapshots ==
    /\ pc = "converted"
    /\ df' = snapshot_df(df)
    /\ finalsnap' = snapshot_frame(df'.rows)
    /\ pc' = "snapshots"
    /\ UNCHANGED <<err, str_keeps_na, county_lookup, geo, raw, datecol, m1, awards_master, tx_deob>>

\* line 175: m1 = classify_awards(finalsnap), and build_base returns
ClassifyAwards ==
    /\ pc = "snapshots"
    /\ finalsnap.rows # <<>>
    /\ m1' = classify_frame(finalsnap)
    /\ pc' = "base_done"
    /\ UNCHANGED <<err, str_keeps_na, county_lookup, geo, raw, df, datecol, finalsnap, awards_master, tx_deob>>

\* line 175 on a snapshot without rows: DataFrame.apply(axis=1) of an empty
\* frame gives back the frame itself, not three columns, and the assignment
\* of line 166 is refused, or the build returns an m1 without rows
ClassifyAwardsEmpty ==
    /\ pc = "snapshots"
    /\ finalsnap.rows = <<>>
    /\ \/ /\ pc' = "error"
          /\ err' = "ValueError: classify_awards"
          /\ UNCHANGED m1
       \/ /\ m1' = classify_frame(finalsnap)
          /\ pc' = "base_done"
          /\ UNCHANGED err
    /\ UNCHANGED <<str_keeps_na, county_lookup, geo, raw, df, datecol, finalsnap, awards_master, tx_deob>>

\* run_all_exports.py line 24: main calls export_awards_master(df, m1, date_col),
\* a function of one parameter (exports_awards.py line 5): TypeError, main ends
MainExportAwardsMaster ==
    /\ pc = "base_done"
    /\ pc' = "error"
    /\ err' = "TypeError: export_awards_master"
    /\ UNCHANGED <<str_keeps_na, county_lookup, geo, raw, df, datecol, finalsnap, m1, awards_master, tx_deob>>

\* export_awards_master(df), called as declared.  Its names m1 and datecol are
\* globals of its module: unbound (NameError at line 39), or bound by the
\* caller to build_base's results.
ExportAwardsMaster ==
    /\ pc = "base_done"
    /\ \E bound \in BOOLEAN :
        IF bound
        THEN /\ awards_master' = export_awards_master(df, m1, datecol)
             /\ pc' = "awards_exported"
             /\ UNCHANGED err
        ELSE /\ pc' = "error"
             /\ err' = "NameError: m1"
             /\ UNCHANGED awards_master
    /\ UNCHANGED <<str_keeps_na, county_lookup, geo, raw, df, datecol, finalsnap, m1, tx_deob>>

\* export_transactions_deob(df, m1, datecol), called as declared
ExportTransactionsDeob ==
    /\ pc = "base_done"
    /\ tx_deob' = export_transactions_deob(df, m1, datecol)
    /\ pc' = "tx_exported"
    /\ UNCHANGED <<err, str_keeps_na, county_lookup, geo, raw, df, datecol, finalsnap, m1, awards_master>>

\* export_geo_aggregation(df, awards_master, county_lookup), called as
\* declared; awards_master is not read.  Without a lookup the DP05 file is
\* loaded first (line 89), then the county column is looked for (line 92).
ExportGeoAggregation ==
    /\ pc = "base_done"
    /\ \E dp \in Dp05Files :
        LET loaded == IF county_lookup = NoFrame THEN load_dp05_county(dp)
                      ELSE [err |-> "", lookup |-> county_lookup]
        IN  IF loaded.err # ""
            THEN /\ pc' = "error"
                 /\ err' = loaded.err
                 /\ UNCHANGED <<county_lookup, geo>>
            ELSE IF "recipient_county_name" \notin df.columns
            THEN /\ pc' = "error"
                 /\ err' = "KeyError: recipient_county_name"
                 /\ county_lookup' = loaded.lookup
                 /\ UNCHANGED geo
            ELSE /\ geo' = export_geo_aggregation(df, loaded.lookup)
                 /\ county_lookup' = loaded.lookup
                 /\ pc' = "geo_exported"
                 /\ UNCHANGED err
    /\ UNCHANGED <<str_keeps_na, raw, df, datecol, finalsnap, m1, awards_master, tx_deob>>

Next ==
    \/ BuildAwardId
    \/ ConvertDatesAndAmounts
    \/ BuildSnapshots
    \/ ClassifyAwards
    \/ ClassifyAwardsEmpty
    \/ MainExportAwardsMaster
    \/ ExportAwardsMaster
    \/ ExportTransactionsDeob
    \/ ExportGeoAggregation

Spec == Init /\ [][Next]_vars

---------------------------------------------------------------------------
(* Properties.                                                             *)

Labels ==
    {"CANCELLATION", "RESCISSION", "PARTIAL_RES_CUM_POS", "ADMIN_OR_PREPAY_ADJ",
     "NO_DEOBLIGATION"}

Idx(t) == 1..Len(t.rows)
AwardIds(t) == {t.rows[i].awardid : i \in Idx(t)}
OneRowPerAward(t) == \A i, j \in Idx(t) : i # j => t.rows[i].awardid # t.rows[j].awardid

\* the decision policy as the specification lists it, first match wins
DecisionPolicy(final_cum, outlay, any_negative) ==
    CASE final_cum <= 0 /\ outlay > 0 -> "RESCISSION"
      [] final_cum <= 0 /\ ~(outlay > 0) -> "CANCELLATION"
      [] final_cum > 0 /\ any_negative /\ outlay > 0 -> "PARTIAL_RES_CUM_POS"
      [] final_cum > 0 /\ any_negative /\ outlay = 0 -> "ADMIN_OR_PREPAY_ADJ"
      [] OTHER -> "NO_DEOBLIGATION"

Signals(r) == <<r.final_cum_obligation, r[OutlayCol], r.any_negative>>

\* C1: every row of m1 carries the label the ordered decision policy gives
\* its (final_cum_obligation, total_outlayed, any_negative), and two awards
\* with the same three signals carry the same label, whatever their
\* gross_positive_obligation, total_negative_amount and first_negative_date.
C1_LabelFollowsPolicy ==
    \A i \in Idx(m1) :
        /\ m1.rows[i].label =
             DecisionPolicy(m1.rows[i].final_cum_obligation, m1.rows[i][OutlayCol],
                            m1.rows[i].any_negative)
        /\ \A j \in Idx(m1) :
             Signals(m1.rows[i]) = Signals(m1.rows[j])
                => m1.rows[i].label = m1.rows[j].label

\* two awards are classified that agree on the three signals and differ in
\* their first_negative_date
C1_Witness ==
    /\ pc = "base_done"
    /\ \E i, j \in Idx(m1) :
        /\ Signals(m1.rows[i]) = Signals(m1.rows[j])
        /\ m1.rows[i].first_negative_date # m1.rows[j].first_negative_date
        /\ m1.rows[i].label = "RESCISSION"

C3_NoDeobligationHasNoCut ==
    /\ \A i \in Idx(m1) :
        m1.rows[i].label = "NO_DEOBLIGATION" =>
            /\ ~m1.rows[i].any_negative
            /\ \A j \in Idx(df) :
                 df.rows[j].awardid = m1.rows[i].awardid => df.rows[j][AmountCol] >= 0
    /\ \A i \in Idx(tx_deob) : tx_deob.rows[i].label # "NO_DEOBLIGATION"

RECURSIVE SetSum(_, _)
SetSum(S, f) ==
    IF S = {} THEN 0
    ELSE LET x == CHOOSE y \in S : TRUE IN f[x] + SetSum(S \ {x}, f)

SameAward(t, i, j) == t.rows[i].awardid = t.rows[j].awardid
\* the transactions of the award of finalsnap's row i, as positions of df
TxOf(i) == {j \in Idx(df) : df.rows[j].awardid = finalsnap.rows[i].awardid}
\* build_snapshots has returned
Snapshotted == "cumulative_obligation" \in df.columns
\* the rows of raw that build_awardid keeps, by index label
KeptIndex == {raw.rows[i].index : i \in {k \in Idx(raw) : str_len_gt0(raw.rows[k].awardid)}}

\* C4: in the frame build_snapshots returns, the transactions of an award
\* stand in action-date order (missing dates last), equal dates in their
\* original row order, every transaction build_awardid kept stands in it
\* once, and each cumulative_obligation is the sum of the amounts of that
\* transaction and of the transactions of the same award before it.
C4_RunningSumInDateOrder ==
    Snapshotted =>
        /\ {df.rows[i].index : i \in Idx(df)} = KeptIndex
        /\ Len(df.rows) = Cardinality(KeptIndex)
        /\ \A i, j \in Idx(df) :
            i < j /\ SameAward(df, i, j) =>
                \/ date_less(df.rows[i].action_date, df.rows[j].action_date)
                \/ /\ df.rows[i].action_date = df.rows[j].action_date
                   /\ df.rows[i].index < df.rows[j].index
        /\ \A i \in Idx(df) :
            df.rows[i].cumulative_obligation =
                SetSum({j \in 1..i : SameAward(df, i, j)}, Column(df.rows, AmountCol))

\* amounts 2, -1, 2 in date order give 2, 1, 3; the last of them was first in
\* the input and the first two share a date
C4_Witness ==
    /\ pc = "snapshots"
    /\ Len(df.rows) = 3
    /\ Column(df.rows, AmountCol) = <<2, -1, 2>>
    /\ Column(df.rows, "cumulative_obligation") = <<2, 1, 3>>
    /\ df.rows[1].action_date = df.rows[2].action_date
    /\ df.rows[3].index = 1

\* the award's last transaction by action date: the latest parseable date,
\* the later row among equal dates
LastByDate(i) ==
    LET dated == {j \in TxOf(i) : df.rows[j].action_date # NaT}
    IN  CHOOSE j \in dated : \A k \in dated :
            \/ df.rows[k].action_date < df.rows[j].action_date
            \/ df.rows[k].action_date = df.rows[j].action_date /\ k <= j

\* C5 (as claimed): final_cum_obligation and total_outlayed of an award are
\* the cumulative obligation and the outlay of its last transaction by action
\* date, also when some of its transactions have a missing date.
C5_FinalValuesOfLastDatedTransaction ==
    Snapshotted =>
        \A i \in Idx(finalsnap) :
            (\E j \in TxOf(i) : df.rows[j].action_date # NaT) =>
                /\ finalsnap.rows[i].final_cum_obligation
                     = df.rows[LastByDate(i)].cumulative_obligation
                /\ finalsnap.rows[i][OutlayCol] = df.rows[LastByDate(i)][OutlayCol]

\* the de-obligating transactions of the award of finalsnap's row i
NegTxOf(i) == {j \in TxOf(i) : df.rows[j][AmountCol] < 0}
DatedNegTxOf(i) == {j \in NegTxOf(i) : df.rows[j].action_date # NaT}

\* C6 (as claimed): first_negative_date is the earliest action date among the
\* award's negative transactions, and it is missing if and only if
\* any_negative is false.
C6_FirstNegativeDateIffAnyNegative ==
    Snapshotted =>
        \A i \in Idx(finalsnap) :
            LET fnd == finalsnap.rows[i].first_negative_date
            IN  /\ (fnd = NaT) <=> ~finalsnap.rows[i].any_negative
                /\ finalsnap.rows[i].any_negative =>
                    /\ \E j \in NegTxOf(i) : df.rows[j].action_date = fnd
                    /\ \A j \in DatedNegTxOf(i) : fnd <= df.rows[j].action_date

\* C6 (amended): any_negative is true exactly when the award has a negative
\* transaction; first_negative_date is the earliest action date among the
\* award's negative transactions that have a parseable date, and it is missing
\* exactly when there is no such transaction, so always when any_negative is
\* false.
C6_FirstNegativeDateAmongDated ==
    Snapshotted =>
        \A i \in Idx(finalsnap) :
            LET fnd == finalsnap.rows[i].first_negative_date
            IN  /\ finalsnap.rows[i].any_negative <=> NegTxOf(i) # {}
                /\ (fnd = NaT) <=> DatedNegTxOf(i) = {}
                /\ ~finalsnap.rows[i].any_negative => fnd = NaT
                /\ DatedNegTxOf(i) # {} =>
                    /\ \E j \in DatedNegTxOf(i) : df.rows[j].action_date = fnd
                    /\ \A j \in DatedNegTxOf(i) : fnd <= df.rows[j].action_date

\* an award with three negative transactions, one undated, the later date
\* first in the input: first_negative_date is the earlier date
C6_Witness ==
    /\ pc = "snapshots"
    /\ Len(finalsnap.rows) = 1
    /\ finalsnap.rows[1].first_negative_date = 1
    /\ Cardinality(NegTxOf(1)) = 3
    /\ \E j \in NegTxOf(1) : df.rows[j].action_date = NaT
    /\ \E j \in NegTxOf(1) : df.rows[j].action_date = 2 /\ df.rows[j].index = 1

\* the first of the present priority columns whose cell is non-null and non-empty
FirstUsable(row, cs) == SelectSeq(cs, LAMBDA c : row[c] # NaN /\ row[c] # <<>>)

\* C7 (as claimed): with a priority identifier column present, each row gets
\* the value (white space stripped) of the first present priority column
\* whose cell is non-null and non-empty.
C7_FirstUsableCandidate ==
    "awardid" \in raw.columns /\ present_award_cols(raw.columns) # <<>> =>
        \A i \in Idx(raw) :
            LET usable == FirstUsable(raw.rows[i], present_award_cols(raw.columns))
            IN  usable # <<>> =>
                    raw.rows[i].awardid = str_strip(raw.rows[i][usable[1]])

Frames5 == <<df, finalsnap, m1, awards_master, tx_deob>>

SameCandidates(t, i, j) ==
    \A c \in t.columns \cap IdColumns : t.rows[i][c] = t.rows[j][c]

\* C9: build_awardid gives two rows with the same candidate cells the same
\* awardid, and build_awardid of the frame it returned is that frame again:
\* same rows, same awardid values.
C9_AwardIdDeterministicIdempotent ==
    pc = "awardid" =>
        /\ \A i, j \in Idx(raw) :
            SameCandidates(raw, i, j) => raw.rows[i].awardid = raw.rows[j].awardid
        /\ ~awardid_key_error(df.columns)
        /\ build_awardid(df) = df

\* two rows with the same cells, resolved by falling through an empty first
\* candidate, and both kept
C9_Witness ==
    /\ pc = "awardid"
    /\ Len(df.rows) = 2
    /\ SameCandidates(raw, 1, 2)
    /\ Len(present_award_cols(raw.columns)) = 2
    /\ raw.rows[1][present_award_cols(raw.columns)[1]] = <<>>

SchemaViolation(columns) ==
    \/ "action_date" \notin columns
    \/ AmountCol \notin columns
    \/ columns \cap IdColumns = {}

\* C10: when the input lacks the action_date column, the
\* federal_action_obligation column, or every identifier column, build_base
\* ends in a KeyError: build_snapshots and classify_awards never run and no
\* snapshot, label or export is produced.
C10_SchemaViolationAborts ==
    SchemaViolation(raw.columns) =>
        /\ pc \in {"loaded", "awardid", "error"}
        /\ pc = "awardid" => raw.columns \cap IdColumns # {}
        /\ pc = "error" =>
             err = IF raw.columns \cap IdColumns = {} THEN "KeyError: awardid"
                   ELSE IF "action_date" \notin raw.columns THEN "KeyError: action_date"
                   ELSE "KeyError: federal_action_obligation"
        /\ datecol = ""
        /\ finalsnap = NoFrame /\ m1 = NoFrame
        /\ awards_master = NoFrame /\ tx_deob = NoFrame

\* the run has ended on the missing amount column, after the dates of two
\* rows were converted
C10_Witness ==
    /\ pc = "error"
    /\ err = "KeyError: federal_action_obligation"
    /\ Len(df.rows) = 2
    /\ df.rows[1].action_date = NaT

\* C11 (as claimed): when the input has no
\* total_outlayed_amount_for_overall_award column the run ends in a schema
\* error before classification: no snapshot and no label is ever produced
\* from an outlay signal the input did not carry.
C11_MissingOutlayColumnAborts ==
    OutlayCol \notin raw.columns =>
        /\ pc \in {"loaded", "awardid", "error"}
        /\ OutlayCol \notin df.columns
        /\ finalsnap = NoFrame /\ m1 = NoFrame

\* what parsing gives a date cell and an amount cell of the CSV
ParsedDate(s) ==
    CASE s = "2025-01-19" -> 1 [] s = "2025-01-20" -> 2 [] s = "2025-01-21" -> 3
      [] OTHER -> NaT
ParsedAmount(s) ==
    CASE s = "-2" -> 0 - 2 [] s = "-1" -> 0 - 1 [] s = "1" -> 1 [] s = "2" -> 2
      [] s = "3" -> 3 [] OTHER -> 0

\* C12: called on a frame that has the action_date and the
\* federal_action_obligation column, convert_dates_and_amounts returns
\* without an exception whatever the cells hold; the frame keeps its rows,
\* each date cell is the parsed date or the missing-date marker when it does
\* not parse, each amount cell is the parsed number or 0 when it does not
\* parse or is missing, and the cells of the columns it does not convert are
\* as they were.
C12_CoercionsNeverAbort ==
    [][(pc = "awardid" /\ "action_date" \in df.columns /\ AmountCol \in df.columns) =>
          /\ pc' = "converted" /\ err' = ""
          /\ Len(df'.rows) = Len(df.rows)
          /\ \A i \in Idx(df) :
                /\ df'.rows[i].action_date = ParsedDate(df.rows[i].action_date)
                /\ df'.rows[i][AmountCol] = ParsedAmount(df.rows[i][AmountCol])
                /\ \A c \in (df.columns \cup {"index"})
                                \ {"action_date", AmountCol, OutlayCol} :
                        df'.rows[i][c] = df.rows[i][c]]_vars

\* two rows converted: an unparseable date and an empty amount cell in the
\* first, a parseable date and amount in the second
C12_Witness ==
    /\ pc = "converted"
    /\ Len(df.rows) = 2
    /\ raw.rows[1][AmountCol] = EmptyCell
    /\ raw.rows[1].action_date = UnparseableCell
    /\ df.rows[1].action_date = NaT /\ df.rows[1][AmountCol] = 0
    /\ df.rows[2].action_date = 2 /\ df.rows[2][AmountCol] = 0 - 1

\* C13 (as claimed): no stage changes the frame it is given.  build_awardid
\* is given raw, convert_dates_and_amounts the frame df of build_base,
\* classify_awards finalsnap, the exports df, m1 and the lookup.  (build_snapshots sorts
\* into a copy at line 69, and df is that copy from then on.)
C13_StagesLeaveInputUnchanged ==
    [][/\ pc = "loaded" => raw' = raw
       /\ pc = "awardid" => df' = df
       /\ pc = "snapshots" => finalsnap' = finalsnap
       /\ pc = "base_done" =>
            /\ df' = df /\ m1' = m1
            /\ county_lookup # NoFrame => county_lookup' = county_lookup]_vars

\* the cutoff 2025-01-20
Cutoff == ParsedDate("2025-01-20")
\* the parseable action dates of the transactions of the award k
DatesOf(k) == {df.rows[j].action_date : j \in {n \in Idx(df) : df.rows[n].awardid = k}} \ {NaT}

NegIndex == {df.rows[j].index : j \in {n \in Idx(df) : df.rows[n][AmountCol] < 0}}
\* the row of df with the index label x
DfRow(x) == df.rows[CHOOSE j \in Idx(df) : df.rows[j].index = x]

\* C15: the frame export_transactions_deob returns has one row for each
\* transaction of df with a negative amount and no other row; its
\* deobligated_amount_usd is the amount negated, its label is the label m1
\* gives the transaction's award and is one of the five labels, and its
\* trump_era_flag is 1 exactly when the transaction's date is on or after
\* 2025-01-20.
C15_OneRowPerNegativeTransaction ==
    pc = "tx_exported" =>
        /\ {tx_deob.rows[i].index : i \in Idx(tx_deob)} = NegIndex
        /\ Len(tx_deob.rows) = Cardinality(NegIndex)
        /\ \A i \in Idx(tx_deob) :
            LET r == tx_deob.rows[i]
                t == DfRow(r.index)
            IN  /\ r.awardid = t.awardid
                /\ r.deobligated_amount_usd = 0 - t[AmountCol]
                /\ r.deobligated_amount_usd > 0
                /\ r.label \in Labels
                /\ \E n \in Idx(m1) :
                        m1.rows[n].awardid = r.awardid /\ m1.rows[n].label = r.label
                /\ r.trump_era_flag \in {0, 1}
                /\ r.trump_era_flag = 1 <=>
                        (t.action_date # NaT /\ t.action_date >= Cutoff)

\* of two transactions of two awards with different labels, the negative one
\* is written, dated on the cutoff day
C15_Witness ==
    /\ pc = "tx_exported"
    /\ Len(df.rows) = 2
    /\ Len(m1.rows) = 2
    /\ m1.rows[1].label # m1.rows[2].label
    /\ Len(tx_deob.rows) = 1
    /\ tx_deob.rows[1].trump_era_flag = 1
    /\ tx_deob.rows[1].action_date = Cutoff

NegTxInCounty(k) ==
    {j \in Idx(df) : /\ df.rows[j][AmountCol] < 0
                     /\ df.rows[j].recipient_county_name # NaN
                     /\ str_strip(df.rows[j].recipient_county_name) = k}
\* the county names that have a negative transaction
CutCounties ==
    {str_strip(df.rows[j].recipient_county_name) :
        j \in {n \in Idx(df) : /\ df.rows[n][AmountCol] < 0
                               /\ df.rows[n].recipient_county_name # NaN}}
\* the lookup has a row for the county k
InLookup(k) ==
    \E n \in Idx(county_lookup) : str_strip(county_lookup.rows[n].county_name) = k

\* C16: whatever the lookup, every county name that has a negative
\* transaction stands in the frame export_geo_aggregation returns, each of
\* its rows with the county's whole de-obligated total and its number of
\* awards with a cut, so the frame has at least as many rows as there are
\* such counties; a county the lookup has no row for keeps its totals and
\* has its demographic cells missing.
C16_NoCountyDroppedOnJoinMiss ==
    pc = "geo_exported" =>
        /\ Len(geo.rows) >= Cardinality(CutCounties)
        /\ \A k \in CutCounties :
            /\ \E i \in Idx(geo) : geo.rows[i].recipient_county_name = k
            /\ \A i \in Idx(geo) :
                geo.rows[i].recipient_county_name = k =>
                    /\ geo.rows[i].deobligated_amount_usd
                         = 0 - SetSum(NegTxInCounty(k), Column(df.rows, AmountCol))
                    /\ geo.rows[i].awards_with_any_cut
                         = Cardinality({df.rows[j].awardid : j \in NegTxInCounty(k)})
                    /\ ~InLookup(k) =>
                        /\ geo.rows[i].county_fips = NaN
                        /\ geo.rows[i].county_name = NaN
                        /\ geo.rows[i].population_total = <<>>
                        /\ geo.rows[i].deob_dollars_per_capita = <<>>
                        /\ geo.rows[i].cuts_per_10k_residents = <<>>
                        /\ geo.rows[i].pct_minority = <<>>

\* the county A, cut in two awards and written once as "A" and once as "A ",
\* is missing from a lookup of one row and stands in the frame with the
\* total 2 and without demographic cells
C16_Witness ==
    /\ pc = "geo_exported"
    /\ Len(county_lookup.rows) = 1
    /\ Cardinality({df.rows[j].recipient_county_name : j \in NegTxInCounty(<<"A">>)}) = 2
    /\ \E i \in Idx(geo) :
        /\ geo.rows[i].recipient_county_name = <<"A">>
        /\ geo.rows[i].deobligated_amount_usd = 2
        /\ geo.rows[i].awards_with_any_cut = 2
        /\ geo.rows[i].county_fips = NaN

\* C17 (as claimed): the frame export_geo_aggregation returns has no
\* recipient_county_name in two rows, whatever the transactions and the
\* lookup, and its deobligated_amount_usd add up to the de-obligated total of
\* all negative transactions.
C17_OneRowPerCounty ==
    pc = "geo_exported" =>
        /\ \A i, j \in Idx(geo) :
            i # j => geo.rows[i].recipient_county_name # geo.rows[j].recipient_county_name
        /\ SetSum(Idx(geo), Column(geo.rows, "deobligated_amount_usd"))
             = 0 - SetSum({j \in Idx(df) : df.rows[j][AmountCol] < 0},
                          Column(df.rows, AmountCol))

\* the input contract: the date, amount and outlay columns and an identifier column
SchemaContract(columns) ==
    /\ {"action_date", AmountCol, OutlayCol} \subseteq columns
    /\ columns \cap IdColumns # {}

\* C19 (as claimed): on an input that satisfies the schema contract, main
\* calls export_awards_master after build_base with arguments the function
\* accepts and goes on to the other exports: its run does not end in an
\* exception at that call.
C19_MainRunsToCompletion ==
    SchemaContract(raw.columns) => err # "TypeError: export_awards_master"

\* C20 (as claimed): once build_awardid has returned, the number of rows it
\* dropped, that is the number of input rows whose resolved awardid is empty,
\* is among the values it returned or recorded.
C20_DroppedRowsCounted ==
    (pc # "loaded" /\ "awardid" \in raw.columns) =>
        (Len(raw.rows) - Cardinality(KeptIndex)) \in build_awardid_reported(raw)

\* the sum of the amounts of the transactions S of df
AmountSum(S) == SetSum(S, Column(df.rows, AmountCol))

C22_CutLabelsNeedACut ==
    pc = "base_done" =>
        \A i \in Idx(m1) :
            LET cut == \E j \in Idx(df) :
                          /\ df.rows[j].awardid = m1.rows[i].awardid
                          /\ df.rows[j][AmountCol] < 0
            IN  /\ m1.rows[i].label \in {"CANCELLATION", "RESCISSION"} =>
                    m1.rows[i].any_negative /\ cut
                /\ ~cut => m1.rows[i].label = "NO_DEOBLIGATION"

====
